---- MODULE Spec2Model ----
(***************************************************************************)
(* Corner-rounding engine of Klipper_RoundedPath/rounded_path.py.          *)
(*                                                                         *)
(* Numbers.  The source computes in floating point.  Here every length,    *)
(* ratio and angle is a fixed-point integer in units of 1/One:             *)
(*   length 1.0 = One, EPSILON = 0.001 = One/1000, angle 1 rad = One,      *)
(*   EPSILON_ANGLE = 0.001 rad = One/1000.                                 *)
(* Products are divided back by One with rounding to nearest (RDiv), so    *)
(* every operator below is the source's formula up to one quantum (1e-4).  *)
(* TLC integers are 32 bit and TLC stops on overflow, so the inputs are    *)
(* kept inside the unit cube.                                              *)
(***************************************************************************)
EXTENDS Integers, Sequences, FiniteSets, TLC

\* ------------------------------------------------------------------------
\* Program constants
\* ------------------------------------------------------------------------
EPSILON == 10
EPSILON_ANGLE == 10
One == 1000 * EPSILON
\* math.pi in units of 1/One
Pi == 31416
HalfPi == Pi \div 2

\* ------------------------------------------------------------------------
\* Fixed-point arithmetic
\* ------------------------------------------------------------------------
Abs(x) == IF x < 0 THEN -x ELSE x
Max(a, b) == IF a >= b THEN a ELSE b
Min(a, b) == IF a <= b THEN a ELSE b

\* a / b rounded to nearest, b > 0 (float division up to half a quantum)
RDiv(a, b) == IF a >= 0 THEN (2 * a + b) \div (2 * b)
              ELSE -((2 * (-a) + b) \div (2 * b))

\* math.floor(a / b), b > 0
Floor(a, b) == a \div b

RECURSIVE Newton(_, _)
Newton(n, x) == LET y == (x + n \div x) \div 2
                IN IF y >= x THEN x ELSE Newton(n, y)

\* floor(sqrt(n))
Isqrt(n) == IF n <= 0 THEN 0 ELSE Newton(n, Min(n, 46340))

\* sqrt(n) rounded to nearest
Sqrt(n) == LET r == Isqrt(n) IN IF n - r * r > r THEN r + 1 ELSE r

\* math.hypot(x, y, z); large arguments are scaled down first so that the
\* squares fit in 32 bits
Hypot(v) == LET m == Max(Abs(v[1]), Max(Abs(v[2]), Abs(v[3])))
                k == m \div 16384 + 1
            IN IF k = 1 THEN Sqrt(v[1] * v[1] + v[2] * v[2] + v[3] * v[3])
               ELSE k * Sqrt((v[1] \div k) * (v[1] \div k) + (v[2] \div k) * (v[2] \div k)
                             + (v[3] \div k) * (v[3] \div k))

\* sin x and cos x by their Taylor series, 0 <= x <= pi/4
SinT(x) == LET x2 == RDiv(x * x, One)
               t3 == RDiv(x * x2, 6 * One)
               t5 == RDiv(t3 * x2, 20 * One)
               t7 == RDiv(t5 * x2, 42 * One)
           IN x - t3 + t5 - t7
CosT(x) == LET x2 == RDiv(x * x, One)
               t2 == RDiv(x2, 2)
               t4 == RDiv(t2 * x2, 12 * One)
               t6 == RDiv(t4 * x2, 30 * One)
               t8 == RDiv(t6 * x2, 56 * One)
           IN One - t2 + t4 - t6 + t8

\* 0 <= x <= pi/2
SinQ(x) == IF 2 * x <= HalfPi THEN SinT(x) ELSE CosT(HalfPi - x)
CosQ(x) == IF 2 * x <= HalfPi THEN CosT(x) ELSE SinT(HalfPi - x)

\* math.sin, math.cos, math.tan for -pi <= x <= pi
FoldQ(a) == IF a <= HalfPi THEN a ELSE Pi - a
Sin(x) == IF x < 0 THEN -SinQ(FoldQ(-x)) ELSE SinQ(FoldQ(x))
Cos(x) == IF Abs(x) <= HalfPi THEN CosQ(Abs(x)) ELSE -CosQ(Pi - Abs(x))
Tan(x) == RDiv(Sin(x) * One, Cos(x))

\* atan z by its Taylor series, |z| <= tan(pi/8)
AtanT(z) == LET z2 == RDiv(z * z, One)
                t3 == RDiv(z * z2, One)
                t5 == RDiv(t3 * z2, One)
                t7 == RDiv(t5 * z2, One)
                t9 == RDiv(t7 * z2, One)
            IN z - RDiv(t3, 3) + RDiv(t5, 5) - RDiv(t7, 7) + RDiv(t9, 9)

\* atan z, 0 <= z <= 1
AtanU(z) == IF 1000 * z <= 414 * One THEN AtanT(z)
            ELSE RDiv(Pi, 4) + AtanT(RDiv((z - One) * One, z + One))

\* math.atan2(y, x) for y >= 0: an angle in [0, pi]
Atan2(y, x) ==
    LET k == Max(y, Abs(x)) \div 100000 + 1
        ys == y \div k
        xs == Abs(x) \div k
        a == IF ys = 0 THEN 0
             ELSE IF xs >= ys THEN AtanU(RDiv(ys * One, xs))
             ELSE HalfPi - AtanU(RDiv(xs * One, ys))
    IN IF x < 0 THEN Pi - a ELSE a

\* ------------------------------------------------------------------------
\* Vector math (lists of three numbers)
\* ------------------------------------------------------------------------
\* a control point: position, feed, maximum deviation, and the derived
\* fields angle, len (distance to the previous point), lin_d and lin_d_to_r.
\* id is a history field: the number of the submission that created the
\* point (0 for the seeded anchor).
ControlPoint(v, d, f, i) ==
    [vec |-> v, f |-> f, maxd |-> d, angle |-> 0, len |-> 0,
     lin_d |-> 0, lin_d_to_r |-> 0, id |-> i]

_vecto(f, t) == <<t.vec[1] - f.vec[1], t.vec[2] - f.vec[2], t.vec[3] - f.vec[3]>>
_vadd(f, t) == <<f[1] + t[1], f[2] + t[2], f[3] + t[3]>>
\* n is a fixed-point factor
_vmul(f, n) == <<RDiv(f[1] * n, One), RDiv(f[2] * n, One), RDiv(f[3] * n, One)>>
\* of two unit vectors: the products are brought back to units of 1/One
_cross(vp, vn) == <<RDiv(vp[2] * vn[3] - vp[3] * vn[2], One),
                    RDiv(vp[3] * vn[1] - vp[1] * vn[3], One),
                    RDiv(vp[1] * vn[2] - vp[2] * vn[1], One)>>
\* _vdist(v0, v1) > eps, decided exactly on the squares
\* a variant that also rejects a position exactly eps away
VdistExceeds_OrEqual(v0, v1, eps) ==
    \/ \E k \in 1..3 : Abs(v0[k] - v1[k]) > eps
    \/ (v0[1] - v1[1]) * (v0[1] - v1[1]) + (v0[2] - v1[2]) * (v0[2] - v1[2])
           + (v0[3] - v1[3]) * (v0[3] - v1[3]) >= eps * eps

\* _vdist(v0, v1) > eps, decided on the squares; a component farther than
\* eps decides it before the squares are taken
VdistExceeds(v0, v1, eps) ==
    \/ \E k \in 1..3 : Abs(v0[k] - v1[k]) > eps
    \/ (v0[1] - v1[1]) * (v0[1] - v1[1]) + (v0[2] - v1[2]) * (v0[2] - v1[2])
           + (v0[3] - v1[3]) * (v0[3] - v1[3]) > eps * eps

_vdist(v0, v1) == Hypot(<<v0[1] - v1[1], v0[2] - v1[2], v0[3] - v1[3]>>)
\* defined only for a vector of non-zero length; the callers test that
_vnorm(vec) == LET h == Hypot(vec)
               IN <<RDiv(vec[1] * One, h), RDiv(vec[2] * One, h), RDiv(vec[3] * One, h)>>
_vangle(vec1, vec2) ==
    LET crossx == vec1[2] * vec2[3] - vec1[3] * vec2[2]
        crossy == vec1[3] * vec2[1] - vec1[1] * vec2[3]
        crossz == vec1[1] * vec2[2] - vec1[2] * vec2[1]
        cross == Hypot(<<crossx, crossy, crossz>>)
        dot == vec1[1] * vec2[1] + vec1[2] * vec2[2] + vec1[3] * vec2[3]
    IN Atan2(cross, dot)

\* product of three fixed-point factors
Mul3(a, b, c) == RDiv(RDiv(a * b, One) * c, One)
Mul2(a, b) == RDiv(a * b, One)

\* the rotation matrix about a normalized axis, row by row
RotMatrix(s, c, t, axis) ==
    << Mul3(t, axis[1], axis[1]) + c,
       Mul3(t, axis[1], axis[2]) - Mul2(s, axis[3]),
       Mul3(t, axis[1], axis[3]) + Mul2(s, axis[2]),
       Mul3(t, axis[1], axis[2]) + Mul2(s, axis[3]),
       Mul3(t, axis[2], axis[2]) + c,
       Mul3(t, axis[2], axis[3]) - Mul2(s, axis[1]),
       Mul3(t, axis[1], axis[3]) - Mul2(s, axis[2]),
       Mul3(t, axis[2], axis[3]) + Mul2(s, axis[1]),
       Mul3(t, axis[3], axis[3]) + c >>
_vrot_transform(angle, axis) == RotMatrix(Sin(angle), Cos(angle), One - Cos(angle), axis)
_vtransform(vec, transform) ==
    << RDiv(vec[1] * transform[1] + vec[2] * transform[2] + vec[3] * transform[3], One),
       RDiv(vec[1] * transform[4] + vec[2] * transform[5] + vec[3] * transform[6], One),
       RDiv(vec[1] * transform[7] + vec[2] * transform[8] + vec[3] * transform[9], One) >>
\* _vrot builds the same matrix as _vrot_transform and applies it
_vrot(vec, angle, axis) == _vtransform(vec, _vrot_transform(angle, axis))

\* ------------------------------------------------------------------------
\* Bounds and inputs of the model
\* ------------------------------------------------------------------------
\* number of ROUNDED_G0 commands in one run
MaxSubmits == 4

Cmd(X, Y, Z, F, D) == [X |-> X, Y |-> Y, Z |-> Z, F |-> F, D |-> D, malformed |-> FALSE]

\* the commands a caller sends: positions in the unit cube, deviations from
\* 0.05 to 0.5, some axes and the feed left out
East == Cmd(<<10000>>, <<0>>, <<>>, <<>>, 500)
North == Cmd(<<10000>>, <<10000>>, <<>>, <<3000>>, 5000)
Mid == Cmd(<<5000>>, <<>>, <<>>, <<-1500>>, 500)
Up == Cmd(<<0>>, <<10000>>, <<5000>>, <<>>, 1800)
Home == Cmd(<<0>>, <<0>>, <<>>, <<6000>>, 0)
Cmds == {East, North, Mid, Up, Home}
\* a command whose X is no number
BadCmds == {[East EXCEPT !.malformed = TRUE]}
NoCmd == Cmd(<<>>, <<>>, <<>>, <<>>, 0)
\* a zero-deviation move away from the origin: ROUNDED_G0 X1 D0
Park == Cmd(<<10000>>, <<>>, <<>>, <<>>, 0)

\* where a move that bypasses the engine leaves the tool: exactly 0.001 from
\* the origin, and well away from it
Elsewhere == {<<10, 0, 0>>, <<0, 0, 3000>>}

\* configured resolutions: 0.05
Resolutions == {500}

\* ------------------------------------------------------------------------
\* State
\* ------------------------------------------------------------------------
VARIABLES
    buffer,                \* self.buffer: sequence of control points
    lastg0,                \* self.lastg0: target of the last emitted move, <<>> at start
    G0_F,                  \* the 'F' entry of self.G0_params: <<>> (absent) or <<f>>
    mm_per_arc_segment,    \* the configured resolution
    absolute_coordinates,  \* gcode_move status: TRUE in absolute mode
    gcode_position,        \* gcode_move status: the current position
    out,                   \* the linear moves the last call handed to real_G0, in order
    raised,                \* the error the last call ended with, "" if it returned
    appended,              \* history: the buffer of the last call right after the
                           \* append and the solving of the new corner, before any
                           \* retirement; <<>> when the call appended nothing
    retired,               \* history: the span the last call retired, as the arc loop
                           \* saw it: [buf: the buffer after _deconflict_lin_d and
                           \* before compaction, n: the num_segments of the flush]
    call,                  \* history: the last call's command and the state it saw
    nsub                   \* history: number of ROUNDED_G0 commands so far

vars == <<buffer, lastg0, G0_F, mm_per_arc_segment, absolute_coordinates,
          gcode_position, out, raised, appended, retired, call, nsub>>

NoSpan == [buf |-> <<>>, n |-> 0]

\* ------------------------------------------------------------------------
\* Corner geometry solver
\* ------------------------------------------------------------------------
\* a variant that sets the blend distance and leaves the ratio at 0
Blend_NoRatio(c, sina2, tana2) ==
    [c EXCEPT !.lin_d = RDiv(RDiv(c.maxd * sina2, One - sina2) * One, tana2)]

\* the part of _calculate_corner past the early return
Blend(c, sina2, tana2) ==
    [c EXCEPT !.lin_d_to_r = tana2,
              !.lin_d = RDiv(RDiv(c.maxd * sina2, One - sina2) * One, tana2)]

\* a solver that gives a straight pass-through a blend distance of its own
SolveCorner_BlendStraight(c) ==
    IF Abs(c.angle) < EPSILON_ANGLE THEN c
    ELSE IF Pi - Abs(c.angle) < EPSILON_ANGLE THEN [c EXCEPT !.lin_d = c.maxd]
    ELSE Blend(c, Sin(RDiv(c.angle, 2)), Tan(RDiv(c.angle, 2)))

\* c with c.len and c.angle already set
SolveCorner(c) ==
    IF Abs(c.angle) < EPSILON_ANGLE \/ Pi - Abs(c.angle) < EPSILON_ANGLE
    THEN c
    ELSE Blend(c, Sin(RDiv(c.angle, 2)), Tan(RDiv(c.angle, 2)))

_calculate_corner(c, v1, v2) ==
    SolveCorner([c EXCEPT !.len = Hypot(_vecto(c, v1)),
                          !.angle = _vangle(_vecto(c, v1), _vecto(c, v2))])

_calculate_zero_corner(c, vp) ==
    [c EXCEPT !.len = Hypot(_vecto(c, vp)), !.angle = 0]

\* ------------------------------------------------------------------------
\* Deconflictor
\* ------------------------------------------------------------------------
\* insert index a into a list of indices kept in ascending order of len;
\* equal keys keep their arrival order (sorted() is stable)
RECURSIVE InsertByLen(_, _, _)
InsertByLen(buf, sq, a) ==
    IF sq = <<>> THEN <<a>>
    ELSE IF buf[sq[Len(sq)]].len <= buf[a].len THEN Append(sq, a)
    ELSE Append(InsertByLen(buf, SubSeq(sq, 1, Len(sq) - 1), a), sq[Len(sq)])

RECURSIVE SortedByLen(_, _)
SortedByLen(buf, n) ==
    IF n = 0 THEN <<>> ELSE InsertByLen(buf, SortedByLen(buf, n - 1), n + 1)

\* a variant that takes the edges in arrival order
DeconflictOrder_Arrival(buf, num_segments) == [i \in 1..num_segments |-> i + 1]

\* the edge order of one pass: indices 2..num_segments+1 (1-based), the
\* later end of each edge, shortest edge first
DeconflictOrder(buf, num_segments) == SortedByLen(buf, num_segments)

\* a variant that does not stop at the other corner's radius
ReduceBiggest_NoFloor(p0, p1) ==
    LET missingd == p1.lin_d + p0.lin_d - p1.len
        r0 == RDiv(p0.lin_d * p0.lin_d_to_r, One)
        r1 == RDiv(p1.lin_d * p1.lin_d_to_r, One)
    IN IF r0 > r1
       THEN LET missingr0 == RDiv(missingd * p0.lin_d_to_r, One) + EPSILON
            IN <<[p0 EXCEPT !.lin_d = RDiv((r0 - missingr0) * One, p0.lin_d_to_r)], p1>>
       ELSE IF r1 > r0
       THEN LET missingr1 == RDiv(missingd * p1.lin_d_to_r, One) + EPSILON
            IN <<p0, [p1 EXCEPT !.lin_d = RDiv((r1 - missingr1) * One, p1.lin_d_to_r)]>>
       ELSE <<p0, p1>>

\* first step on an overlapping edge: reduce the bigger radius
ReduceBiggest(p0, p1) ==
    LET missingd == p1.lin_d + p0.lin_d - p1.len
        r0 == RDiv(p0.lin_d * p0.lin_d_to_r, One)
        r1 == RDiv(p1.lin_d * p1.lin_d_to_r, One)
    IN IF r0 > r1
       THEN LET missingr0 == RDiv(missingd * p0.lin_d_to_r, One) + EPSILON
                r0n == Max(r1, r0 - missingr0)
            IN <<[p0 EXCEPT !.lin_d = RDiv(r0n * One, p0.lin_d_to_r)], p1>>
       ELSE IF r1 > r0
       THEN LET missingr1 == RDiv(missingd * p1.lin_d_to_r, One) + EPSILON
                r1n == Max(r0, r1 - missingr1)
            IN <<p0, [p1 EXCEPT !.lin_d = RDiv(r1n * One, p1.lin_d_to_r)]>>
       ELSE <<p0, p1>>

\* a variant that takes half of the missing distance from each corner
ReduceShared_Halves(p0, p1) ==
    LET missingd == p1.lin_d + p0.lin_d - p1.len
    IN IF p0.lin_d_to_r <= 0 \/ p1.lin_d_to_r <= 0
       THEN <<[p0 EXCEPT !.lin_d = 0], [p1 EXCEPT !.lin_d = 0]>>
       ELSE <<[p0 EXCEPT !.lin_d = Max(0, p0.lin_d - RDiv(missingd, 2))],
              [p1 EXCEPT !.lin_d = Max(0, p1.lin_d - RDiv(missingd, 2))]>>

\* second step: the edge still overlaps, reduce both proportionally
ReduceShared(p0, p1) ==
    LET missingd == p1.lin_d + p0.lin_d - p1.len
    IN IF p0.lin_d_to_r <= 0 \/ p1.lin_d_to_r <= 0
       THEN <<[p0 EXCEPT !.lin_d = 0], [p1 EXCEPT !.lin_d = 0]>>
       ELSE LET inv0 == RDiv(One * One, p0.lin_d_to_r)
                inv1 == RDiv(One * One, p1.lin_d_to_r)
                missingr_shared == RDiv(missingd * One, inv0 + inv1)
            IN <<[p0 EXCEPT !.lin_d = Max(0, p0.lin_d - RDiv(missingr_shared * One, p0.lin_d_to_r))],
                 [p1 EXCEPT !.lin_d = Max(0, p1.lin_d - RDiv(missingr_shared * One, p1.lin_d_to_r))]>>

\* a variant that stops after the first step
AfterBiggest_Skip(a) == a

\* one iteration of the loop: the edge between p0 and p1
\* a: the two points after the first step
AfterBiggest(a) ==
    IF a[2].lin_d + a[1].lin_d - a[2].len <= 0 THEN a ELSE ReduceShared(a[1], a[2])

\* a variant without the test that skips an edge that fits
DeconflictEdge_Always(p0, p1) == AfterBiggest(ReduceBiggest(p0, p1))

\* a variant that leaves every edge as it finds it
DeconflictEdge_NoOp(p0, p1) == <<p0, p1>>

DeconflictEdge(p0, p1) ==
    IF p1.lin_d + p0.lin_d - p1.len <= 0 THEN <<p0, p1>>
    ELSE AfterBiggest(ReduceBiggest(p0, p1))

RECURSIVE DeconflictLoop(_, _)
StoreEdge(buf, i, e) == [buf EXCEPT ![i - 1] = e[1], ![i] = e[2]]

DeconflictLoop(buf, order) ==
    IF order = <<>> THEN buf
    ELSE DeconflictLoop(StoreEdge(buf, Head(order),
                                  DeconflictEdge(buf[Head(order) - 1], buf[Head(order)])),
                        Tail(order))

\* the buffer before the loop and after each of its iterations
RECURSIVE DeconflictTrace(_, _)
DeconflictTrace(buf, order) ==
    IF order = <<>> THEN <<buf>>
    ELSE <<buf>> \o DeconflictTrace(StoreEdge(buf, Head(order),
                                               DeconflictEdge(buf[Head(order) - 1],
                                                              buf[Head(order)])),
                                     Tail(order))

_deconflict_lin_d(buf, num_segments) ==
    DeconflictLoop(buf, DeconflictOrder(buf, num_segments))

\* ------------------------------------------------------------------------
\* Emission.  m is the engine during one call:
\*   [buffer, lastg0, G0_F, out, err, span, appended]
\* err is "" while the call runs and the name of the exception once one is
\* raised; every later step of the call is then skipped.
\* ------------------------------------------------------------------------
\* a variant that leaves the feed of the previous move in G0_params when
\* the point has none
_g0p_KeepFeed(m, p, vec) ==
    LET F == IF p.f > 0 THEN <<p.f>> ELSE m.G0_F
    IN [m EXCEPT !.G0_F = F,
                 !.lastg0 = vec,
                 !.out = Append(m.out, [vec |-> vec, F |-> F, src |-> p.id])]

_g0p(m, p, vec) ==
    LET F == IF p.f > 0 THEN <<p.f>> ELSE <<>>
    IN [m EXCEPT !.G0_F = F,
                 !.lastg0 = vec,
                 !.out = Append(m.out, [vec |-> vec, F |-> F, src |-> p.id])]

_g0(m, p) == _g0p(m, p, p.vec)

\* the arc loop: one move per rotation of the spoke
RECURSIVE ArcSteps(_, _, _, _, _, _)
ArcStep(m, c, center, r, rot_transform, steps) ==
    ArcSteps(_g0p(m, c, _vadd(center, r)), c, center, r, rot_transform, steps - 1)
ArcSteps(m, c, center, rotspoke, rot_transform, steps) ==
    IF steps = 0 THEN m
    ELSE ArcStep(m, c, center, _vtransform(rotspoke, rot_transform), rot_transform, steps)

Radius(c) == RDiv(c.lin_d * c.lin_d_to_r, One)

\* a variant that rounds the quotient up
SegmentCount_Ceil(c, res) == (Radius(c) * c.angle + One * res - 1) \div (One * res)

\* math.floor(radius * c.angle / self.mm_per_arc_segment)
SegmentCount(c, res) == Floor(Radius(c) * c.angle, One * res)

\* a variant that leaves out the vertex at the start of the arc
ArcFromCenter_NoStart(m, c, center, spoke, rot_transform, num_segments) ==
    ArcSteps(m, c, center, spoke, rot_transform, num_segments)

\* the first vertex, then the loop
ArcFromCenter(m, c, center, spoke, rot_transform, num_segments) ==
    ArcSteps(_g0p(m, c, _vadd(center, spoke)), c, center, spoke, rot_transform, num_segments)

ArcFromStart(m, c, start, spoke, rotaxis, num_segments) ==
    ArcFromCenter(m, c, _vadd(start, _vmul(spoke, -One)), spoke,
                  _vrot_transform(-RDiv(c.angle, num_segments), rotaxis), num_segments)

ArcAbout(m, c, vp, rotaxis, num_segments) ==
    ArcFromStart(m, c, _vadd(c.vec, _vmul(vp, c.lin_d)),
                 _vmul(_vrot(vp, HalfPi, rotaxis), -Radius(c)), rotaxis, num_segments)

\* vp, vn: the unit vectors towards the previous and the next point
ArcBetween(m, c, vp, vn, num_segments) ==
    IF Hypot(_cross(vp, vn)) = 0 THEN [m EXCEPT !.err = "ZeroDivisionError"]
    ELSE ArcAbout(m, c, vp, _vnorm(_cross(vp, vn)), num_segments)

\* a variant that normalises the two edges before the collapse test
_arc_NormalizeFirst(m, res, c, p, n) ==
    IF m.err # "" THEN m
    ELSE IF Hypot(_vecto(c, p)) = 0 \/ Hypot(_vecto(c, n)) = 0
    THEN [m EXCEPT !.err = "ZeroDivisionError"]
    ELSE IF SegmentCount(c, res) < 1 THEN _g0(m, c)
    ELSE ArcBetween(m, c, _vnorm(_vecto(c, p)), _vnorm(_vecto(c, n)), SegmentCount(c, res))

_arc(m, res, c, p, n) ==
    IF m.err # "" THEN m
    ELSE IF SegmentCount(c, res) < 1 THEN _g0(m, c)
    ELSE IF Hypot(_vecto(c, p)) = 0 \/ Hypot(_vecto(c, n)) = 0
    THEN [m EXCEPT !.err = "ZeroDivisionError"]
    ELSE ArcBetween(m, c, _vnorm(_vecto(c, p)), _vnorm(_vecto(c, n)), SegmentCount(c, res))

\* ------------------------------------------------------------------------
\* Retirement
\* ------------------------------------------------------------------------
\* for i in range(num_segments): self._arc(buffer[i+1], buffer[i], buffer[i+2])
\* a variant that walks the span from its last corner to its first
RECURSIVE ArcLoop_Backwards(_, _, _, _)
ArcLoop_Backwards(m, res, i, num_segments) ==
    IF i >= num_segments THEN m
    ELSE ArcLoop_Backwards(_arc(m, res, m.buffer[num_segments - i + 1],
                                m.buffer[num_segments - i], m.buffer[num_segments - i + 2]),
                           res, i + 1, num_segments)

RECURSIVE ArcLoop(_, _, _, _)
ArcLoop(m, res, i, num_segments) ==
    IF i >= num_segments THEN m
    ELSE ArcLoop(_arc(m, res, m.buffer[i + 2], m.buffer[i + 1], m.buffer[i + 3]),
                 res, i + 1, num_segments)

\* a variant that keeps the retired points in the buffer
Compact_KeepAll(m, num_segments) == [m EXCEPT !.buffer[1].vec = m.lastg0]

\* a variant that turns the first kept point into an anchor
Compact_AsAnchor(m, num_segments) ==
    LET b == SubSeq(m.buffer, num_segments + 1, Len(m.buffer))
    IN [m EXCEPT !.buffer = [b EXCEPT ![1].vec = m.lastg0, ![1].maxd = 0, ![1].lin_d = 0]]

\* a variant that leaves the first kept point where it was submitted
Compact_NoReseed(m, num_segments) ==
    [m EXCEPT !.buffer = SubSeq(m.buffer, num_segments + 1, Len(m.buffer))]

\* a variant that keeps the last two points only
Compact_LastTwo(m, num_segments) ==
    [m EXCEPT !.buffer = SubSeq(m.buffer, num_segments + 2, Len(m.buffer))]

\* self.buffer = self.buffer[num_segments:]; self.buffer[0].vec = self.lastg0
Compact(m, num_segments) ==
    LET b == SubSeq(m.buffer, num_segments + 1, Len(m.buffer))
    IN [m EXCEPT !.buffer = [b EXCEPT ![1].vec = m.lastg0]]

\* a variant whose slice starts one point early: self.buffer[num_segments-1:]
Retired_OneEarly(a, num_segments) ==
    IF a.err # "" THEN a ELSE Compact(a, num_segments - 1)

\* a: the engine after the arcs
Retired(a, num_segments) == IF a.err # "" THEN a ELSE Compact(a, num_segments)

\* b: the buffer after self._deconflict_lin_d(num_segments+1)
Deconflicted(m, b, num_segments) ==
    [m EXCEPT !.buffer = b, !.span = [buf |-> b, n |-> num_segments]]

\* a variant whose partial pass also takes the edge into the newest point
_flush_buffer_Wider(m, res, num_segments) ==
    IF num_segments <= 0 THEN m
    ELSE IF Len(m.buffer) < 2 THEN [m EXCEPT !.buffer = <<>>]
    ELSE IF Len(m.buffer) = 2
    THEN [_g0(m, m.buffer[Len(m.buffer)]) EXCEPT !.buffer = <<>>]
    ELSE Retired(ArcLoop(Deconflicted(m, _deconflict_lin_d(m.buffer, Len(m.buffer) - 1),
                                      num_segments),
                         res, 0, num_segments),
                 num_segments)

_flush_buffer(m, res, num_segments) ==
    IF num_segments <= 0 THEN m
    ELSE IF Len(m.buffer) < 2 THEN [m EXCEPT !.buffer = <<>>]
    ELSE IF Len(m.buffer) = 2
    THEN [_g0(m, m.buffer[Len(m.buffer)]) EXCEPT !.buffer = <<>>]
    ELSE Retired(ArcLoop(Deconflicted(m, _deconflict_lin_d(m.buffer, num_segments + 1),
                                      num_segments),
                         res, 0, num_segments),
                 num_segments)

\* a variant that retires as soon as four points are buffered
NoOverlap_Always(b) == Len(b) >= 4

\* the retirement test of a positive-deviation append
NoOverlap(b) ==
    Len(b) >= 4 /\ b[Len(b) - 2].lin_d + b[Len(b) - 1].lin_d <= b[Len(b) - 1].len

\* a variant that clears the buffer without the final move
EmitLast_NoMove(fl) == IF fl.err # "" THEN fl ELSE [fl EXCEPT !.buffer = <<>>]

\* fl: the engine after the flush of a zero-deviation append
EmitLast(fl) ==
    IF fl.err # "" THEN fl
    ELSE IF fl.buffer = <<>> THEN [fl EXCEPT !.err = "IndexError"]
    ELSE [_g0(fl, fl.buffer[Len(fl.buffer)]) EXCEPT !.buffer = <<>>]

ZeroCorner(b) ==
    [b EXCEPT ![Len(b)] = _calculate_zero_corner(b[Len(b)], b[Len(b) - 1])]

\* m: the engine with the point appended and the new corner solved
\* a variant that flushes the whole buffer on every append
RetirementPolicy_FlushAll(m, res) ==
    IF Len(m.buffer) >= 2
    THEN EmitLast(_flush_buffer([m EXCEPT !.buffer = ZeroCorner(m.buffer)], res,
                                Len(m.buffer) - 2))
    ELSE m

RetirementPolicy(m, res) ==
    IF Len(m.buffer) >= 2 /\ m.buffer[Len(m.buffer)].maxd <= 0
    THEN EmitLast(_flush_buffer([m EXCEPT !.buffer = ZeroCorner(m.buffer)], res,
                                Len(m.buffer) - 2))
    ELSE IF NoOverlap(m.buffer) THEN _flush_buffer(m, res, Len(m.buffer) - 3)
    ELSE m

\* b: the buffer with the point appended
NewCorner(b) ==
    IF Len(b) >= 3
    THEN [b EXCEPT ![Len(b) - 1] = _calculate_corner(b[Len(b) - 1], b[Len(b) - 2], b[Len(b)])]
    ELSE b

\* b: the buffer with the point appended and the new corner solved
Appended(m, b) == [m EXCEPT !.buffer = b, !.appended = b]

_lineto(m, res, pos) ==
    RetirementPolicy(Appended(m, NewCorner(Append(m.buffer, pos))), res)

\* ------------------------------------------------------------------------
\* The command.  gcmd = [X, Y, Z, F: <<>> (parameter absent) or <<value>>,
\* D: a number, malformed: TRUE when one of X, Y, Z, F is no number, so that
\* gcmd.get_float raises for it]
\* ------------------------------------------------------------------------
get_float(param, default) == IF param = <<>> THEN default ELSE param[1]

\* real_G0(gcmd): what gcode_move makes of the forwarded original command
PassThrough(gcmd) ==
    LET base == IF absolute_coordinates THEN <<0, 0, 0>> ELSE gcode_position
        tgt == << IF gcmd.X = <<>> THEN gcode_position[1] ELSE base[1] + gcmd.X[1],
                  IF gcmd.Y = <<>> THEN gcode_position[2] ELSE base[2] + gcmd.Y[1],
                  IF gcmd.Z = <<>> THEN gcode_position[3] ELSE base[3] + gcmd.Z[1] >>
    IN [vec |-> tgt, F |-> gcmd.F, src |-> nsub + 1]

Engine == [buffer |-> buffer, lastg0 |-> lastg0, G0_F |-> G0_F, out |-> <<>>, err |-> "",
           span |-> NoSpan, appended |-> <<>>]

\* a variant that seeds the anchor at the origin
Seeded_AtOrigin(currentPos) ==
    IF Len(buffer) = 0
    THEN [Engine EXCEPT !.buffer = <<ControlPoint(<<0, 0, 0>>, 0, 0, 0)>>]
    ELSE Engine

\* the anchor is seeded on an empty buffer
Seeded(currentPos) ==
    IF Len(buffer) = 0
    THEN [Engine EXCEPT !.buffer = <<ControlPoint(currentPos, 0, 0, 0)>>]
    ELSE Engine

\* the point of the command; from is the position an omitted axis takes
NewPoint(gcmd, from) ==
    ControlPoint(<<get_float(gcmd.X, from[1]), get_float(gcmd.Y, from[2]),
                   get_float(gcmd.Z, from[3])>>,
                 gcmd.D, get_float(gcmd.F, 0), nsub + 1)

\* a variant that seeds the anchor before it checks the coordinate mode
Accepted_SeedFirst(gcmd) ==
    IF ~absolute_coordinates THEN [Seeded(gcode_position) EXCEPT !.err = "UnsupportedMode"]
    ELSE IF Len(buffer) # 0 /\ VdistExceeds(gcode_position, buffer[1].vec, EPSILON)
    THEN [Engine EXCEPT !.err = "PositionDrift"]
    ELSE IF gcmd.malformed THEN [Seeded(gcode_position) EXCEPT !.err = "ParseError"]
    ELSE _lineto(Seeded(gcode_position), mm_per_arc_segment,
                 NewPoint(gcmd, IF Len(buffer) = 0 THEN gcode_position
                                ELSE buffer[Len(buffer)].vec))

\* a variant that checks the drift before the coordinate mode
Accepted_DriftFirst(gcmd) ==
    IF Len(buffer) # 0 /\ VdistExceeds(gcode_position, buffer[1].vec, EPSILON)
    THEN [Engine EXCEPT !.err = "PositionDrift"]
    ELSE IF ~absolute_coordinates THEN [Engine EXCEPT !.err = "UnsupportedMode"]
    ELSE IF gcmd.malformed THEN [Seeded(gcode_position) EXCEPT !.err = "ParseError"]
    ELSE _lineto(Seeded(gcode_position), mm_per_arc_segment,
                 NewPoint(gcmd, IF Len(buffer) = 0 THEN gcode_position
                                ELSE buffer[Len(buffer)].vec))

\* the engine after the body of cmd_ROUNDED_G0 past the first return
Accepted(gcmd) ==
    IF ~absolute_coordinates THEN [Engine EXCEPT !.err = "UnsupportedMode"]
    ELSE IF Len(buffer) # 0 /\ VdistExceeds(gcode_position, buffer[1].vec, EPSILON)
    THEN [Engine EXCEPT !.err = "PositionDrift"]
    ELSE IF gcmd.malformed THEN [Seeded(gcode_position) EXCEPT !.err = "ParseError"]
    ELSE _lineto(Seeded(gcode_position), mm_per_arc_segment,
                 NewPoint(gcmd, IF Len(buffer) = 0 THEN gcode_position
                                ELSE buffer[Len(buffer)].vec))

\* history: the greatest submission number a move has been emitted for
EmittedSoFar ==
    LET ids == {call.emitted} \cup {out[i].src : i \in DOMAIN out}
    IN CHOOSE a \in ids : \A b \in ids : b <= a

\* m: the engine when the call ends
Finish(m) ==
    /\ buffer' = m.buffer
    /\ lastg0' = m.lastg0
    /\ G0_F' = m.G0_F
    /\ out' = m.out
    /\ raised' = m.err
    /\ retired' = m.span
    /\ appended' = m.appended
    /\ gcode_position' = IF m.out = <<>> THEN gcode_position ELSE m.out[Len(m.out)].vec

\* a variant that seeds the anchor before it forwards the command
Forward_ThenSeed(gcmd) ==
    /\ out' = IF gcmd.malformed THEN <<>> ELSE <<PassThrough(gcmd)>>
    /\ gcode_position' = IF gcmd.malformed THEN gcode_position ELSE PassThrough(gcmd).vec
    /\ raised' = IF gcmd.malformed THEN "ParseError" ELSE ""
    /\ retired' = NoSpan
    /\ appended' = <<>>
    /\ buffer' = Seeded(gcode_position).buffer
    /\ UNCHANGED <<lastg0, G0_F>>

\* self.real_G0(gcmd); return.  gcode_move parses the command itself and
\* raises on a parameter that is no number, before it moves
Forward(gcmd) ==
    /\ out' = IF gcmd.malformed THEN <<>> ELSE <<PassThrough(gcmd)>>
    /\ gcode_position' = IF gcmd.malformed THEN gcode_position ELSE PassThrough(gcmd).vec
    /\ raised' = IF gcmd.malformed THEN "ParseError" ELSE ""
    /\ retired' = NoSpan
    /\ appended' = <<>>
    /\ UNCHANGED <<buffer, lastg0, G0_F>>

\* a variant that forwards a zero-deviation command on the empty buffer only
cmd_ROUNDED_G0_EmptyOnly(gcmd) ==
    /\ nsub < MaxSubmits
    /\ nsub' = nsub + 1
    /\ call' = [gcmd |-> gcmd, buffer |-> buffer, pos |-> gcode_position,
                absolute |-> absolute_coordinates, emitted |-> EmittedSoFar]
    /\ UNCHANGED <<mm_per_arc_segment, absolute_coordinates>>
    /\ IF gcmd.D <= 0 /\ Len(buffer) < 1 THEN Forward(gcmd) ELSE Finish(Accepted(gcmd))

cmd_ROUNDED_G0(gcmd) ==
    /\ nsub < MaxSubmits
    /\ nsub' = nsub + 1
    /\ call' = [gcmd |-> gcmd, buffer |-> buffer, pos |-> gcode_position,
                absolute |-> absolute_coordinates, emitted |-> EmittedSoFar]
    /\ UNCHANGED <<mm_per_arc_segment, absolute_coordinates>>
    /\ IF gcmd.D <= 0 /\ Len(buffer) < 2 THEN Forward(gcmd) ELSE Finish(Accepted(gcmd))

\* ------------------------------------------------------------------------
\* The environment: gcode_move, driven by other commands
\* ------------------------------------------------------------------------
\* G90 / G91
SetCoordinateMode ==
    /\ absolute_coordinates' = ~absolute_coordinates
    /\ UNCHANGED <<buffer, lastg0, G0_F, mm_per_arc_segment, gcode_position, out,
                   raised, appended, retired, call, nsub>>

\* a move that does not go through ROUNDED_G0
OtherMove ==
    \E p \in Elsewhere :
        /\ gcode_position # p
        /\ gcode_position' = p
        /\ UNCHANGED <<buffer, lastg0, G0_F, mm_per_arc_segment, absolute_coordinates,
                       out, raised, appended, retired, call, nsub>>

Submit == \E gcmd \in Cmds : cmd_ROUNDED_G0(gcmd)
SubmitMalformed == \E gcmd \in BadCmds : cmd_ROUNDED_G0(gcmd)

Init ==
    /\ buffer = <<>>
    /\ lastg0 = <<>>
    /\ G0_F = <<>>
    /\ mm_per_arc_segment \in Resolutions
    /\ absolute_coordinates = TRUE
    /\ gcode_position = <<0, 0, 0>>
    /\ out = <<>>
    /\ raised = ""
    /\ retired = NoSpan
    /\ appended = <<>>
    /\ call = [gcmd |-> NoCmd, buffer |-> <<>>, pos |-> <<0, 0, 0>>, absolute |-> TRUE,
               emitted |-> 0]
    /\ nsub = 0

Next == Submit \/ SubmitMalformed \/ SetCoordinateMode \/ OtherMove

Spec == Init /\ [][Next]_vars

\* runs in which ROUNDED_G0 is the only command: the mode stays absolute
\* and the reported position is the target of the last move emitted
SubmitOwn == \E gcmd \in Cmds \cup BadCmds \cup {Park} : cmd_ROUNDED_G0(gcmd)

SpecOwnMoves == Init /\ [][SubmitOwn]_vars

\* ------------------------------------------------------------------------
\* Properties.  call is the last submission and what it saw; buffer, out,
\* raised and retired are what it left.  The environment's actions change
\* none of them, so each property reads a submission and its outcome off
\* one state.
\* ------------------------------------------------------------------------

\* C1 (as stated): every zero-deviation submission, whatever the buffer, the
\* position and the coordinate mode it finds, leaves the buffer empty.
C1_ZeroDeviationEmptiesBuffer ==
    (nsub > 0 /\ call.gcmd.D <= 0) => buffer = <<>>

\* C2: when corners are tessellated, every edge of the retiring span (the
\* edges into each tessellated corner and the edge out of the last one)
\* is at least as long, within epsilon, as the blend distances of its two
\* ends together.
C2_BlendsFitEdges ==
    retired.n > 0 =>
        \A i \in 2..(retired.n + 2) :
            retired.buf[i - 1].lin_d + retired.buf[i].lin_d <= retired.buf[i].len + EPSILON

\* a span was tessellated in which the deconflictor had shrunk a corner to
\* make an edge fit: the corner's blend distance is below what its angle
\* and deviation alone give, and the edge is filled to within epsilon
C2_Witness ==
    /\ retired.n >= 2
    /\ \E i \in 2..(retired.n + 1) :
           /\ retired.buf[i].lin_d > 0
           /\ retired.buf[i].lin_d < SolveCorner(retired.buf[i]).lin_d
           /\ retired.buf[i - 1].lin_d > 0
           /\ retired.buf[i - 1].lin_d + retired.buf[i].lin_d >= retired.buf[i].len - EPSILON

\* C3 (as stated): a corner tessellated with the blend distance its own
\* angle and deviation give (no deconfliction shrank it), at an angle
\* strictly between the epsilon bounds, is rounded by an arc whose nearest
\* approach to the corner, over the chords emitted for it, is d within
\* five epsilon.
C3_DeviationIsD ==
    \A j \in 2..(retired.n + 1) :
        LET \* the distance from point q to the segment from a to b
            SegDist(a, b, q) ==
                LET ab == <<b[1] - a[1], b[2] - a[2], b[3] - a[3]>>
                    aq == <<q[1] - a[1], q[2] - a[2], q[3] - a[3]>>
                    den == ab[1] * ab[1] + ab[2] * ab[2] + ab[3] * ab[3]
                    dot == ab[1] * aq[1] + ab[2] * aq[2] + ab[3] * aq[3]
                    t == IF den = 0 \/ dot <= 0 THEN 0
                         ELSE IF dot >= den THEN 50 ELSE RDiv(50 * dot, den)
                IN Hypot(<<aq[1] - RDiv(ab[1] * t, 50), aq[2] - RDiv(ab[2] * t, 50),
                           aq[3] - RDiv(ab[3] * t, 50)>>)
            c == retired.buf[j]
            mv == {i \in DOMAIN out : out[i].src = c.id}
            ds == {SegDist(out[i].vec, out[i + 1].vec, c.vec) : i \in {k \in mv : k + 1 \in mv}}
        IN (/\ c.angle > EPSILON_ANGLE /\ Pi - c.angle > EPSILON_ANGLE
            /\ c.lin_d = SolveCorner(c).lin_d
            /\ Cardinality(mv) >= 2) =>
               /\ \E x \in ds : x <= c.maxd + 5 * EPSILON
               /\ \A x \in ds : x >= c.maxd - 5 * EPSILON

\* C4 (as stated): every submission made in relative mode raises
\* UnsupportedMode and emits no move, whatever its D and the buffer.
C4_RelativeAlwaysRaises ==
    (nsub > 0 /\ ~call.absolute) => (raised = "UnsupportedMode" /\ out = <<>>)

\* C4 (amended): a submission made in relative mode raises UnsupportedMode,
\* emits no move and leaves the buffer as it was when its D is positive or
\* the buffer holds two points or more; with D <= 0 and fewer than two
\* buffered points it raises no UnsupportedMode and is forwarded to the
\* linear-move primitive as one move.
C4_RelativeRaisesUnlessForwarded ==
    (nsub > 0 /\ ~call.absolute) =>
        IF call.gcmd.D > 0 \/ Len(call.buffer) >= 2
        THEN raised = "UnsupportedMode" /\ out = <<>> /\ buffer = call.buffer
        ELSE /\ raised # "UnsupportedMode"
             /\ buffer = call.buffer
             /\ ~call.gcmd.malformed => (raised = "" /\ Len(out) = 1)

\* a zero-deviation flush of a pending path is refused in relative mode
C4_Witness ==
    /\ nsub > 0 /\ ~call.absolute /\ call.gcmd.D <= 0 /\ Len(call.buffer) >= 2
    /\ raised = "UnsupportedMode"

\* C5 (as stated): with a non-empty buffer and the position farther than
\* 0.001 from buffer[0], any submission raises PositionDrift; at a distance
\* of 0.001 or less no PositionDrift is raised.
C5_DriftAlwaysRaises ==
    nsub > 0 =>
        LET o == call.buffer[1].vec
            far == \/ \E k \in 1..3 : Abs(call.pos[k] - o[k]) > EPSILON
                   \/ (call.pos[1] - o[1]) * (call.pos[1] - o[1])
                          + (call.pos[2] - o[2]) * (call.pos[2] - o[2])
                          + (call.pos[3] - o[3]) * (call.pos[3] - o[3]) > EPSILON * EPSILON
        IN IF call.buffer # <<>> /\ far THEN raised = "PositionDrift"
           ELSE raised # "PositionDrift"

\* C5 (amended): in absolute mode, with a non-empty buffer and the position
\* farther than 0.001 from buffer[0], a submission raises PositionDrift when
\* its D is positive or the buffer holds two points or more; a submission
\* made in relative mode, or at a distance of 0.001 or less, or on an empty
\* buffer, raises no PositionDrift.
C5_DriftRaisesInAbsoluteMode ==
    nsub > 0 =>
        LET o == call.buffer[1].vec
            far == \/ \E k \in 1..3 : Abs(call.pos[k] - o[k]) > EPSILON
                   \/ (call.pos[1] - o[1]) * (call.pos[1] - o[1])
                          + (call.pos[2] - o[2]) * (call.pos[2] - o[2])
                          + (call.pos[3] - o[3]) * (call.pos[3] - o[3]) > EPSILON * EPSILON
        IN IF call.absolute /\ call.buffer # <<>> /\ far
           THEN (call.gcmd.D > 0 \/ Len(call.buffer) >= 2) =>
                    (raised = "PositionDrift" /\ out = <<>> /\ buffer = call.buffer)
           ELSE raised # "PositionDrift"

\* a submission found the position exactly 0.001 from buffer[0] and was not
\* refused for drift
C5_Witness ==
    /\ nsub > 0 /\ call.absolute /\ Len(call.buffer) >= 2
    /\ call.pos # call.buffer[1].vec
    /\ ~VdistExceeds(call.pos, call.buffer[1].vec, EPSILON)
    /\ raised = ""

\* C6 (as stated): after a submission failed with PositionDrift, a
\* zero-deviation submission made next, in the same mode and at the same
\* position, is accepted and leaves the buffer empty.
C6_FlushRecoversFromDrift ==
    [][(/\ raised = "PositionDrift"
        /\ gcode_position = call.pos
        /\ absolute_coordinates
        /\ nsub' = nsub + 1
        /\ call'.gcmd.D <= 0
        /\ ~call'.gcmd.malformed) => (raised' = "" /\ buffer' = <<>>)]_vars

\* C7 (as stated): the buffer never holds more than K points, for a K that
\* the number of submissions does not raise; K is the number of submissions
\* of a run, the largest K the runs explored can tell from no bound.
C7_BufferBounded == Len(buffer) <= MaxSubmits

\* C7 (amended): the buffer never holds more points than one plus the number
\* of submissions; an accepted positive-deviation submission either retires
\* corners and leaves exactly three points, or retires nothing and leaves
\* one point more than it found (two on an empty buffer), which it does
\* whenever the buffer is shorter than four points or the blend distances of
\* the two newest corners overlap; an accepted zero-deviation submission
\* leaves none.  A run of overlapping positive-deviation points therefore
\* grows the buffer by one point per submission.
C7_BufferGrowsWhileOverlapping ==
    /\ Len(buffer) <= nsub + 1
    /\ (nsub > 0 /\ raised = "" /\ (call.gcmd.D > 0 \/ Len(call.buffer) >= 2)) =>
           IF call.gcmd.D <= 0 THEN buffer = <<>>
           ELSE IF retired.n > 0 THEN Len(buffer) = 3 /\ out # <<>>
           ELSE /\ out = <<>>
                /\ Len(buffer) = Max(Len(call.buffer), 1) + 1
                /\ \/ Len(buffer) < 4
                   \/ buffer[Len(buffer) - 2].lin_d + buffer[Len(buffer) - 1].lin_d
                          > buffer[Len(buffer) - 1].len

\* a run of overlapping points has grown the buffer past the three points a
\* retirement leaves
C7_Witness ==
    /\ raised = "" /\ call.gcmd.D > 0 /\ out = <<>>
    /\ Len(buffer) >= 5

\* C8: a zero-deviation point appended to a buffer of two points or more
\* retires the whole buffer: every pending point is in the deconflicted
\* span and is tessellated, in buffer order; then one move, the last of the
\* call, goes to the zero-deviation point's exact position, which gets no
\* other move; the buffer is empty afterwards.
C8_ZeroDeviationFlush ==
    (/\ nsub > 0 /\ call.gcmd.D <= 0 /\ Len(call.buffer) >= 2
     /\ raised \notin {"UnsupportedMode", "PositionDrift", "ParseError"}) =>
        LET n == Len(call.buffer)
            from == call.buffer[n].vec
            tgt == << IF call.gcmd.X = <<>> THEN from[1] ELSE call.gcmd.X[1],
                      IF call.gcmd.Y = <<>> THEN from[2] ELSE call.gcmd.Y[1],
                      IF call.gcmd.Z = <<>> THEN from[3] ELSE call.gcmd.Z[1] >>
        IN /\ raised = ""
           /\ buffer = <<>>
           /\ retired.n = n - 1 /\ Len(retired.buf) = n + 1
           /\ \A j \in 1..n : retired.buf[j].id = call.buffer[j].id
           /\ out # <<>>
           /\ out[Len(out)].src = nsub /\ out[Len(out)].vec = tgt
           /\ \A i \in 1..(Len(out) - 1) : out[i].src # nsub
           /\ {out[i].src : i \in 1..(Len(out) - 1)} = {call.buffer[j].id : j \in 2..n}
           /\ \A i \in DOMAIN out : \A j \in DOMAIN out : i < j => out[i].src <= out[j].src

\* a zero-deviation point flushed a buffer of four points or more, some of
\* whose corners became arcs of several vertices
C8_Witness ==
    /\ nsub > 0 /\ call.gcmd.D <= 0 /\ Len(call.buffer) >= 4 /\ raised = ""
    /\ buffer = <<>>
    /\ Len(out) > Len(call.buffer) + 2

\* C9: within a call the moves come in the submission order of their
\* points, and every one of them belongs to a point submitted after each
\* point an earlier call emitted a move for; the vertices of an arc start at
\* the corner's blend distance from the corner, on the line towards the
\* previous position (within epsilon), and move steadily away from that
\* first vertex.
C9_PathOrder ==
    /\ \A i \in DOMAIN out : \A j \in DOMAIN out : i < j => out[i].src <= out[j].src
    /\ \A i \in DOMAIN out : out[i].src > call.emitted
    /\ \A j \in 2..(retired.n + 1) :
           LET c == retired.buf[j]
               p == retired.buf[j - 1]
               mv == {i \in DOMAIN out : out[i].src = c.id}
               first == CHOOSE i \in mv : \A k \in mv : i <= k
           IN Cardinality(mv) >= 2 =>
                  /\ Abs(_vdist(out[first].vec, c.vec) - c.lin_d) <= EPSILON
                  /\ Abs(_vdist(out[first].vec, p.vec)
                             - Abs(_vdist(c.vec, p.vec) - c.lin_d)) <= EPSILON
                  /\ \A a \in mv : \A b \in mv :
                         a < b => _vdist(out[first].vec, out[a].vec)
                                      < _vdist(out[first].vec, out[b].vec)

\* a call that followed earlier emissions retired two corners or more, one
\* of them as an arc of three vertices or more
C9_Witness ==
    /\ call.emitted > 0
    /\ \E i \in DOMAIN out : \E j \in DOMAIN out : out[i].src < out[j].src
    /\ \E i \in DOMAIN out : Cardinality({k \in DOMAIN out : out[k].src = out[i].src}) >= 3

\* C10 (as stated): for every tessellated corner with segment_count >= 1
\* (one move more than segment_count is emitted for it), the arc length of
\* one step, radius * angle / segment_count, is at most the resolution.
C10_StepWithinResolution ==
    \A j \in 2..(retired.n + 1) :
        LET c == retired.buf[j]
            N == Cardinality({i \in DOMAIN out : out[i].src = c.id}) - 1
        IN N >= 1 =>
               RDiv(c.lin_d * c.lin_d_to_r, One) * c.angle <= N * mm_per_arc_segment * One

\* C10 (amended): for every tessellated corner with segment_count >= 1 the
\* arc length of one step is at least the resolution and less than
\* (segment_count + 1) / segment_count times the resolution, so less than
\* twice the resolution; a corner whose whole arc is shorter than the
\* resolution gets one move.
C10_StepAtLeastResolution ==
    \A j \in 2..(retired.n + 1) :
        LET c == retired.buf[j]
            N == Cardinality({i \in DOMAIN out : out[i].src = c.id}) - 1
            arc == RDiv(c.lin_d * c.lin_d_to_r, One) * c.angle
        IN /\ N >= 0
           /\ N * mm_per_arc_segment * One <= arc
           /\ arc < (N + 1) * mm_per_arc_segment * One

\* a corner was tessellated in two steps or more, each longer than the
\* resolution
C10_Witness ==
    \E j \in 2..(retired.n + 1) :
        LET c == retired.buf[j]
            N == Cardinality({i \in DOMAIN out : out[i].src = c.id}) - 1
        IN /\ N >= 2
           /\ RDiv(c.lin_d * c.lin_d_to_r, One) * c.angle > N * mm_per_arc_segment * One

\* C11: for every tessellated corner, with radius = lin_d * lin_d_to_r and
\* k = floor(radius * angle / resolution), exactly one move is emitted, to the
\* corner's own position, when k < 1, and exactly k + 1 moves otherwise.
C11_MoveCount ==
    \A j \in 2..(retired.n + 1) :
        LET c == retired.buf[j]
            mv == {i \in DOMAIN out : out[i].src = c.id}
            k == (RDiv(c.lin_d * c.lin_d_to_r, One) * c.angle) \div (One * mm_per_arc_segment)
        IN IF k < 1
           THEN Cardinality(mv) = 1 /\ \A i \in mv : out[i].vec = c.vec
           ELSE Cardinality(mv) = k + 1

\* one call tessellated a rounded corner whose arc is shorter than the
\* resolution as one move and another corner as an arc of three steps or more
C11_Witness ==
    /\ \E j \in 2..(retired.n + 1) :
           /\ retired.buf[j].lin_d > 0 /\ retired.buf[j].lin_d_to_r > 0
           /\ Cardinality({i \in DOMAIN out : out[i].src = retired.buf[j].id}) = 1
    /\ \E j \in 2..(retired.n + 1) :
           Cardinality({i \in DOMAIN out : out[i].src = retired.buf[j].id}) >= 4

\* C12 (as stated): every move emitted for a control point carries the
\* point's feed rate when that is nonzero and no feed otherwise.
C12_FeedWhenNonzero ==
    \A i \in DOMAIN out : \A j \in 2..Len(retired.buf) :
        retired.buf[j].id = out[i].src =>
            out[i].F = IF retired.buf[j].f # 0 THEN <<retired.buf[j].f>> ELSE <<>>

\* C12 (amended): every move emitted for a control point carries the point's
\* feed rate when that is positive and no feed when it is zero or negative;
\* the feed of an earlier move is never carried over, and the feed kept in
\* the parameters of the move command is the one of the last move.
C12_FeedWhenPositive ==
    /\ \A i \in DOMAIN out : \A j \in 2..Len(retired.buf) :
           retired.buf[j].id = out[i].src =>
               out[i].F = IF retired.buf[j].f > 0 THEN <<retired.buf[j].f>> ELSE <<>>
    /\ (retired.n > 0 /\ out # <<>>) => G0_F = out[Len(out)].F

\* a move without feed, for a point submitted with a negative feed, follows
\* a move that carries a feed
C12_Witness ==
    \E i \in DOMAIN out : \E j \in 2..Len(retired.buf) :
        /\ i > 1 /\ out[i - 1].F # <<>>
        /\ retired.buf[j].id = out[i].src
        /\ retired.buf[j].f < 0
        /\ out[i].F = <<>>

\* C13: a point the path runs straight through (its angle within
\* EPSILON_ANGLE of pi) has blend distance 0 whatever its deviation, while
\* it is buffered and when it is retired, and it is emitted as exactly one
\* move, to its own submitted position.
C13_StraightThrough ==
    /\ \A j \in 2..Len(buffer) :
           Pi - Abs(buffer[j].angle) < EPSILON_ANGLE => buffer[j].lin_d = 0
    /\ \A j \in 2..(retired.n + 1) :
           LET c == retired.buf[j]
               mv == {i \in DOMAIN out : out[i].src = c.id}
           IN Pi - Abs(c.angle) < EPSILON_ANGLE =>
                  /\ c.lin_d = 0
                  /\ Cardinality(mv) = 1
                  /\ \A i \in mv : out[i].vec = c.vec

\* three collinear points, the middle one with a positive deviation, have
\* been emitted: the anchor, Mid and East on the x axis
C13_Witness ==
    /\ retired.n > 0
    /\ raised = ""
    /\ \E j \in 2..(retired.n + 1) :
           LET c == retired.buf[j]
           IN /\ Pi - Abs(c.angle) < EPSILON_ANGLE
              /\ c.maxd > 0
              /\ c.len > 0
              /\ \E i \in DOMAIN out : out[i].src = c.id /\ out[i].vec = c.vec

\* C14: a well-formed submission that passed the mode and drift checks
\* returns without raising: the only errors a call ends with are the mode
\* error, the drift error and the parse error of a malformed parameter, so
\* no division by zero and no index error comes out of the solver, the
\* deconflictor or the tessellator.
C14_NoFailureAfterChecks ==
    /\ raised \in {"", "UnsupportedMode", "PositionDrift", "ParseError"}
    /\ raised = "ParseError" => call.gcmd.malformed

\* an accepted call retired a span that holds a zero-length edge
C14_Witness ==
    /\ raised = ""
    /\ retired.n > 0
    /\ \E j \in 2..(retired.n + 1) :
           \/ retired.buf[j].vec = retired.buf[j - 1].vec
           \/ retired.buf[j].vec = retired.buf[j + 1].vec

\* C15 (as stated): the buffer changes only in a submission step, a
\* non-empty buffer becomes empty only through an accepted zero-deviation
\* submission, and between Idle (0 points), Accumulating (1 to 3) and
\* Streaming (4 or more) a step either stays in its state or goes
\* Idle -> Accumulating, Accumulating -> Streaming or Streaming -> Idle.
C15_StatedTransitions ==
    [][LET State(b) == IF Len(b) = 0 THEN "Idle"
                       ELSE IF Len(b) <= 3 THEN "Accumulating" ELSE "Streaming"
       IN /\ buffer' # buffer => nsub' = nsub + 1
          /\ (buffer # <<>> /\ buffer' = <<>>) => (call'.gcmd.D <= 0 /\ raised' = "")
          /\ \/ State(buffer') = State(buffer)
             \/ <<State(buffer), State(buffer')>> \in
                    {<<"Idle", "Accumulating">>, <<"Accumulating", "Streaming">>,
                     <<"Streaming", "Idle">>}]_vars

\* C15 (amended): the buffer changes only in a submission step; a non-empty
\* buffer becomes empty only through an accepted zero-deviation submission,
\* which empties it from Accumulating as well as from Streaming; Idle is
\* never followed by Streaming; and Streaming goes back to Accumulating
\* through a partial retirement, which leaves three points.
C15_Transitions ==
    [][LET State(b) == IF Len(b) = 0 THEN "Idle"
                       ELSE IF Len(b) <= 3 THEN "Accumulating" ELSE "Streaming"
       IN /\ buffer' # buffer => nsub' = nsub + 1
          /\ (buffer # <<>> /\ buffer' = <<>>) => (call'.gcmd.D <= 0 /\ raised' = "")
          /\ \/ State(buffer') = State(buffer)
             \/ <<State(buffer), State(buffer')>> \in
                    {<<"Idle", "Accumulating">>, <<"Accumulating", "Streaming">>,
                     <<"Streaming", "Idle">>, <<"Accumulating", "Idle">>,
                     <<"Streaming", "Accumulating">>}
          /\ (State(buffer) = "Streaming" /\ State(buffer') = "Accumulating") =>
                 (retired'.n > 0 /\ call'.gcmd.D > 0 /\ Len(buffer') = 3)]_vars

\* a submission found four points or more and its partial retirement left
\* three
C15_Witness ==
    /\ Len(call.buffer) >= 4
    /\ call.gcmd.D > 0
    /\ retired.n > 0
    /\ raised = ""
    /\ Len(buffer) = 3

\* C16 (as stated): an axis left out of a submission takes the coordinate of
\* the tail point when the submission finds the buffer non-empty and the
\* reported position when it finds the buffer empty, whether the point is
\* appended to the buffer or forwarded as a move.
C16_OmittedAxisDefault ==
    \A k \in 1..3 :
        LET axis == <<call.gcmd.X, call.gcmd.Y, call.gcmd.Z>>[k]
            from == IF call.buffer # <<>> THEN call.buffer[Len(call.buffer)].vec
                    ELSE call.pos
        IN (nsub > 0 /\ raised = "" /\ axis = <<>>) =>
               /\ appended # <<>> => appended[Len(appended)].vec[k] = from[k]
               /\ (call.gcmd.D <= 0 /\ Len(call.buffer) < 2) => out[1].vec[k] = from[k]

\* C17: an accepted positive-deviation submission, whose append and corner
\* solve leave the n points of appended, retires corners if and only if
\* n >= 4 and the blend distances of the two newest corners fit their shared
\* edge.  When it does, the span is the n - 3 corners after the first
\* point, the moves are those of exactly these corners, and the last two
\* points stay buffered as they were; when it does not, no move is emitted
\* and the buffer is the appended one.
C17_RetireIffNoOverlap ==
    LET n == Len(appended)
    IN (appended # <<>> /\ call.gcmd.D > 0 /\ raised = "") =>
           /\ retired.n > 0 <=>
                  (n >= 4 /\ appended[n - 2].lin_d + appended[n - 1].lin_d
                                 <= appended[n - 1].len)
           /\ retired.n > 0 =>
                  /\ retired.n = n - 3
                  /\ {out[i].src : i \in DOMAIN out} = {appended[j].id : j \in 2..(n - 2)}
                  /\ Len(buffer) = 3
                  /\ buffer[2] = appended[n - 1]
                  /\ buffer[3] = appended[n]
           /\ retired.n = 0 => (out = <<>> /\ buffer = appended)

\* a submission that found four points retired two corners at once
C17_Witness ==
    /\ Len(appended) >= 5
    /\ call.gcmd.D > 0
    /\ raised = ""
    /\ retired.n = Len(appended) - 3
    /\ Len(buffer) = 3

\* C18 (as stated): right after a partial retirement the buffer holds
\* exactly two points, the last two submitted.
C18_TwoPointsAfterRetirement ==
    (retired.n > 0 /\ call.gcmd.D > 0 /\ raised = "") =>
        /\ Len(buffer) = 2
        /\ buffer = SubSeq(appended, Len(appended) - 1, Len(appended))

\* C18 (amended): right after a partial retirement the buffer holds exactly
\* three points: the last retired corner, kept as the point the next corner
\* is solved from, and after it the last two submitted points as they were.
C18_ThreePointsAfterRetirement ==
    (retired.n > 0 /\ call.gcmd.D > 0 /\ raised = "") =>
        /\ Len(buffer) = 3
        /\ buffer[1].id = retired.buf[retired.n + 1].id
        /\ buffer[1].id = appended[Len(appended) - 2].id
        /\ SubSeq(buffer, 2, 3) = SubSeq(appended, Len(appended) - 1, Len(appended))

\* a partial retirement has kept a submitted point, not the anchor, in front
\* of the last two
C18_Witness ==
    /\ retired.n > 0
    /\ call.gcmd.D > 0
    /\ raised = ""
    /\ buffer # <<>>
    /\ buffer[1].id > 0
    /\ buffer[1].id = retired.buf[retired.n + 1].id

\* C19: right after a partial retirement the first buffered point stands at
\* the target of the last move emitted, which is also lastg0; that move
\* belongs to the last retired corner, and is the corner's own position
\* when its arc collapsed.
C19_ReseededAtLastMove ==
    (retired.n > 0 /\ call.gcmd.D > 0 /\ raised = "") =>
        LET c == retired.buf[retired.n + 1]
            last == out[Len(out)]
        IN /\ out # <<>>
           /\ buffer[1].vec = last.vec
           /\ lastg0 = last.vec
           /\ last.src = c.id
           /\ SegmentCount(c, mm_per_arc_segment) < 1 => buffer[1].vec = c.vec

\* a partial retirement whose last corner was rounded: the first buffered
\* point has left the position it was submitted at
C19_Witness ==
    /\ retired.n > 0
    /\ call.gcmd.D > 0
    /\ raised = ""
    /\ SegmentCount(retired.buf[retired.n + 1], mm_per_arc_segment) >= 1
    /\ buffer[1].vec # retired.buf[retired.n + 1].vec

\* C20 (as stated): whenever the buffer is non-empty its first point has
\* deviation 0 and blend distance 0.
C20_FirstPointIsAnchor ==
    buffer # <<>> => (buffer[1].maxd = 0 /\ buffer[1].lin_d = 0)

\* C20 (amended): the first buffered point is either the anchor seeded from
\* the reported position, with deviation 0, blend distance 0 and ratio 0,
\* or a submitted point kept by a partial retirement, with its positive
\* deviation and a blend distance that fits, with the next point's, the
\* edge between them; right after a partial retirement it is the last
\* retired corner with the blend distance the deconfliction left it, moved
\* to lastg0.
C20_FirstPointAnchorOrRetiredCorner ==
    buffer # <<>> =>
        /\ buffer[1].id = 0 =>
               (buffer[1].maxd = 0 /\ buffer[1].lin_d = 0 /\ buffer[1].lin_d_to_r = 0)
        /\ buffer[1].id > 0 =>
               /\ buffer[1].maxd > 0
               /\ Len(buffer) >= 3
               /\ buffer[1].lin_d + buffer[2].lin_d <= buffer[2].len
        /\ (retired.n > 0 /\ call.gcmd.D > 0 /\ raised = "") =>
               buffer[1] = [retired.buf[retired.n + 1] EXCEPT !.vec = lastg0]

\* the first buffered point is a retired corner that keeps a positive blend
\* distance
C20_Witness ==
    /\ buffer # <<>>
    /\ buffer[1].id > 0
    /\ buffer[1].maxd > 0
    /\ buffer[1].lin_d > 0

\* C21 (as stated): when a span is retired, every tessellated corner has a
\* blend distance of at most half the length of the edge entering it.
C21_BlendAtMostHalfEdge ==
    retired.n > 0 =>
        \A j \in 2..(retired.n + 1) : 2 * retired.buf[j].lin_d <= retired.buf[j].len

\* C21 (amended): once the deconfliction pass has processed the edge
\* entering a point, and through the rest of the pass, the blend distances
\* of the edge's two ends together are at most the edge length within
\* epsilon; so each is at most the edge length and the smaller of the two
\* is at most half of it, while the larger may exceed half.
C21_BlendsShareEdge ==
    retired.n > 0 =>
        LET pre == IF call.gcmd.D <= 0 THEN ZeroCorner(appended) ELSE appended
            order == DeconflictOrder(pre, retired.n + 1)
            T == DeconflictTrace(pre, order)
        IN /\ T[Len(T)] = retired.buf
           /\ \A k \in 1..Len(order) : \A m \in (k + 1)..Len(T) :
                  LET p0 == T[m][order[k] - 1]
                      p1 == T[m][order[k]]
                  IN /\ p0.lin_d + p1.lin_d <= p1.len + EPSILON
                     /\ p1.lin_d <= p1.len + EPSILON
                     /\ 2 * Min(p0.lin_d, p1.lin_d) <= p1.len + EPSILON

\* a pass shrank a corner and left its successor a blend distance of more
\* than half the edge between them
C21_Witness ==
    /\ retired.n > 0
    /\ raised = ""
    /\ \E j \in 3..(retired.n + 1) :
           /\ 2 * retired.buf[j].lin_d > retired.buf[j].len
           /\ retired.buf[j - 1].lin_d > 0
           /\ retired.buf[j - 1].lin_d < appended[j - 1].lin_d

\* C22: a well-formed submission with D > 0 that finds the buffer empty, in
\* absolute mode, leaves exactly two points, the anchor at the reported
\* position with deviation 0 and feed 0 and after it the submitted point,
\* and emits no move.
C22_FirstPointSeedsAnchor ==
    (nsub > 0 /\ call.buffer = <<>> /\ call.gcmd.D > 0 /\ call.absolute
       /\ ~call.gcmd.malformed) =>
        /\ raised = ""
        /\ out = <<>>
        /\ Len(buffer) = 2
        /\ buffer[1].vec = call.pos
        /\ buffer[1].maxd = 0
        /\ buffer[1].f = 0
        /\ buffer[1].lin_d = 0
        /\ buffer[2].vec = <<get_float(call.gcmd.X, call.pos[1]),
                              get_float(call.gcmd.Y, call.pos[2]),
                              get_float(call.gcmd.Z, call.pos[3])>>
        /\ buffer[2].maxd = call.gcmd.D
        /\ buffer[2].f = get_float(call.gcmd.F, 0)

\* the first point of a path was submitted away from the origin
C22_Witness ==
    /\ nsub > 0
    /\ call.buffer = <<>>
    /\ call.gcmd.D > 0
    /\ call.absolute
    /\ call.pos # <<0, 0, 0>>
    /\ Len(buffer) = 2
    /\ buffer[1].vec = call.pos

\* C23: on every overlapping edge a deconfliction pass processes whose two
\* corners have different radii, the first step changes nothing but the
\* blend distance of the corner with the larger radius, lowers it, leaves
\* that corner's radius at least the other's (within epsilon), and the
\* other corner's blend distance changes in the iteration only if the edge
\* still overlaps after the first step.
C23_LargerRadiusFirst ==
    retired.n > 0 =>
        LET pre == IF call.gcmd.D <= 0 THEN ZeroCorner(appended) ELSE appended
            order == DeconflictOrder(pre, retired.n + 1)
            T == DeconflictTrace(pre, order)
        IN \A k \in 1..Len(order) :
               LET p0 == T[k][order[k] - 1]
                   p1 == T[k][order[k]]
                   q0 == T[k + 1][order[k] - 1]
                   q1 == T[k + 1][order[k]]
                   a == ReduceBiggest(p0, p1)
                   big == IF Radius(p0) > Radius(p1) THEN 1 ELSE 2
                   small == 3 - big
               IN (p0.lin_d + p1.lin_d > p1.len /\ Radius(p0) # Radius(p1)) =>
                      /\ a[small] = <<p0, p1>>[small]
                      /\ a[big] = [<<p0, p1>>[big] EXCEPT !.lin_d = a[big].lin_d]
                      /\ a[big].lin_d < <<p0, p1>>[big].lin_d
                      /\ Radius(a[big]) >= Radius(a[small]) - EPSILON
                      /\ <<q0, q1>>[small] # <<p0, p1>>[small] =>
                             a[1].lin_d + a[2].lin_d > a[2].len

\* a pass met an overlapping edge with different radii and its first step
\* was enough: the corner with the smaller radius kept its blend distance
C23_Witness ==
    /\ retired.n > 0
    /\ raised = ""
    /\ LET pre == IF call.gcmd.D <= 0 THEN ZeroCorner(appended) ELSE appended
           order == DeconflictOrder(pre, retired.n + 1)
           T == DeconflictTrace(pre, order)
       IN \E k \in 1..Len(order) :
              LET p0 == T[k][order[k] - 1]
                  p1 == T[k][order[k]]
                  q0 == T[k + 1][order[k] - 1]
                  q1 == T[k + 1][order[k]]
              IN /\ p0.lin_d + p1.lin_d > p1.len
                 /\ Radius(p0) > Radius(p1)
                 /\ Radius(p1) > 0
                 /\ q0.lin_d < p0.lin_d
                 /\ q1 = p1

\* C24: a deconfliction pass takes every edge of its span once, in
\* ascending order of edge length: no edge is processed before a strictly
\* shorter one, and edges of equal length keep their arrival order.
C24_ShortestEdgeFirst ==
    retired.n > 0 =>
        LET pre == IF call.gcmd.D <= 0 THEN ZeroCorner(appended) ELSE appended
            order == DeconflictOrder(pre, retired.n + 1)
        IN /\ Len(order) = retired.n + 1
           /\ {order[k] : k \in 1..Len(order)} = 2..(retired.n + 2)
           /\ \A k \in 1..Len(order) : \A l \in (k + 1)..Len(order) :
                  /\ pre[order[k]].len <= pre[order[l]].len
                  /\ pre[order[k]].len = pre[order[l]].len => order[k] < order[l]
           /\ DeconflictLoop(pre, order) = retired.buf

\* a pass took a later edge before an earlier, longer one, and changed a
\* blend distance
C24_Witness ==
    /\ retired.n > 0
    /\ raised = ""
    /\ LET pre == IF call.gcmd.D <= 0 THEN ZeroCorner(appended) ELSE appended
           order == DeconflictOrder(pre, retired.n + 1)
       IN /\ \E k \in 1..(Len(order) - 1) :
                 order[k] > order[k + 1] /\ pre[order[k]].len < pre[order[k + 1]].len
          /\ pre # retired.buf

\* C25: no iteration of a deconfliction pass raises a blend distance or
\* makes one negative; an iteration changes nothing when the two blend
\* distances of its edge fit the edge length, and otherwise changes at most
\* the blend distances of the two ends of its edge; edge length, angle and
\* ratio of every point stay as they were.
C25_DeconflictOnlyShrinks ==
    retired.n > 0 =>
        LET pre == IF call.gcmd.D <= 0 THEN ZeroCorner(appended) ELSE appended
            order == DeconflictOrder(pre, retired.n + 1)
            T == DeconflictTrace(pre, order)
        IN /\ T[Len(T)] = retired.buf
           /\ \A k \in 1..Len(order) :
                  /\ Len(T[k + 1]) = Len(T[k])
                  /\ \A j \in DOMAIN T[k] :
                         /\ T[k + 1][j].lin_d <= T[k][j].lin_d
                         /\ T[k + 1][j].lin_d >= 0
                         /\ [T[k + 1][j] EXCEPT !.lin_d = T[k][j].lin_d] = T[k][j]
                         /\ j \notin {order[k] - 1, order[k]} => T[k + 1][j] = T[k][j]
                  /\ T[k][order[k] - 1].lin_d + T[k][order[k]].lin_d <= T[k][order[k]].len
                         => T[k + 1] = T[k]

\* one pass left an edge with two positive blend distances that fit it
\* untouched and shrank a corner of another edge
C25_Witness ==
    /\ retired.n > 0
    /\ raised = ""
    /\ LET pre == IF call.gcmd.D <= 0 THEN ZeroCorner(appended) ELSE appended
           order == DeconflictOrder(pre, retired.n + 1)
           T == DeconflictTrace(pre, order)
       IN /\ \E k \in 1..Len(order) : T[k + 1] # T[k]
          /\ \E k \in 1..Len(order) :
                 /\ T[k][order[k] - 1].lin_d > 0
                 /\ T[k][order[k]].lin_d > 0
                 /\ T[k][order[k] - 1].lin_d + T[k][order[k]].lin_d <= T[k][order[k]].len
                 /\ T[k + 1] = T[k]

\* C26: whenever the second, proportional step of an iteration runs (the
\* edge still overlaps after the first step), the edge has positive length
\* and both ratios are positive, the two radii are equal within epsilon
\* before the step and after it, both having lost the same amount, neither
\* blend distance ends at 0, and afterwards the two blend distances sum to
\* the edge length within epsilon.
C26_SharedStepKeepsRadiiEqual ==
    retired.n > 0 =>
        LET pre == IF call.gcmd.D <= 0 THEN ZeroCorner(appended) ELSE appended
            order == DeconflictOrder(pre, retired.n + 1)
            T == DeconflictTrace(pre, order)
        IN \A k \in 1..Len(order) :
               LET p0 == T[k][order[k] - 1]
                   p1 == T[k][order[k]]
                   q0 == T[k + 1][order[k] - 1]
                   q1 == T[k + 1][order[k]]
                   a == ReduceBiggest(p0, p1)
               IN (p0.lin_d + p1.lin_d > p1.len /\ a[1].lin_d + a[2].lin_d > a[2].len) =>
                      /\ p1.len > 0
                      /\ a[1].lin_d_to_r > 0 /\ a[2].lin_d_to_r > 0
                      /\ <<q0, q1>> = ReduceShared(a[1], a[2])
                      /\ Abs(Radius(a[1]) - Radius(a[2])) <= EPSILON
                      /\ Abs(Radius(q0) - Radius(q1)) <= EPSILON
                      /\ Abs((Radius(a[1]) - Radius(q0)) - (Radius(a[2]) - Radius(q1)))
                             <= EPSILON
                      /\ q0.lin_d > 0 /\ q1.lin_d > 0
                      /\ Abs(q0.lin_d + q1.lin_d - q1.len) <= EPSILON

\* the proportional step ran on an edge whose two corners have different
\* ratios
C26_Witness ==
    /\ retired.n > 0
    /\ raised = ""
    /\ LET pre == IF call.gcmd.D <= 0 THEN ZeroCorner(appended) ELSE appended
           order == DeconflictOrder(pre, retired.n + 1)
           T == DeconflictTrace(pre, order)
       IN \E k \in 1..Len(order) :
              LET a == ReduceBiggest(T[k][order[k] - 1], T[k][order[k]])
              IN /\ T[k][order[k] - 1].lin_d + T[k][order[k]].lin_d > T[k][order[k]].len
                 /\ a[1].lin_d + a[2].lin_d > a[2].len
                 /\ a[1].lin_d_to_r # a[2].lin_d_to_r
                 /\ T[k + 1][order[k]].lin_d < a[2].lin_d

\* C27: an accepted submission leaves every point that already had a
\* successor as it was, solves the former tail point, whose angle, edge
\* length, blend distance and ratio were still 0, and a retirement pass
\* changes the blend distance of emitted corners only: buffer[0] goes
\* through the pass unchanged, so does the point kept at the end of a
\* partial span and the newest point, and every point kept after the first
\* is as the append left it.
C27_FieldsSettledOnce ==
    (nsub > 0 /\ raised = "" /\ appended # <<>>) =>
        LET pre == IF call.gcmd.D <= 0 THEN ZeroCorner(appended) ELSE appended
            old == call.buffer
        IN /\ \A j \in 1..(Len(old) - 1) : appended[j] = old[j]
           /\ Len(old) >= 2 =>
                  /\ old[Len(old)].angle = 0 /\ old[Len(old)].len = 0
                  /\ old[Len(old)].lin_d = 0 /\ old[Len(old)].lin_d_to_r = 0
                  /\ appended[Len(old)] =
                         SolveCorner([old[Len(old)] EXCEPT
                                        !.len = appended[Len(old)].len,
                                        !.angle = appended[Len(old)].angle])
           /\ retired.n > 0 =>
                  /\ retired.buf[1] = pre[1]
                  /\ \A j \in (retired.n + 2)..Len(pre) :
                         call.gcmd.D > 0 => retired.buf[j] = pre[j]
           /\ \A i \in 2..Len(buffer) : buffer[i] = appended[Len(appended) - Len(buffer) + i]

\* a partial pass shrank an emitted corner and left alone the first point
\* and the kept point after the span, which has a positive blend distance
C27_Witness ==
    /\ nsub > 0
    /\ raised = ""
    /\ call.gcmd.D > 0
    /\ retired.n > 0
    /\ retired.buf[1] = call.buffer[1]
    /\ retired.buf[retired.n + 2].lin_d > 0
    /\ retired.buf[retired.n + 2] = appended[retired.n + 2]
    /\ \E j \in 2..(retired.n + 1) : retired.buf[j].lin_d < appended[j].lin_d

\* C28 (as stated): the moves of a corner emitted with one segment or more
\* start at its blend distance from the corner on the edge towards the
\* previous point and end at its blend distance from the corner on the
\* edge towards the next point, within five epsilon, at every angle.
C28_ArcEndsOnOutgoingEdge ==
    \A j \in 2..(retired.n + 1) :
        LET c == retired.buf[j]
            p == retired.buf[j - 1]
            n == retired.buf[j + 1]
            mv == {i \in DOMAIN out : out[i].src = c.id}
            first == out[CHOOSE i \in mv : \A i2 \in mv : i <= i2].vec
            last == out[CHOOSE i \in mv : \A i2 \in mv : i >= i2].vec
        IN (raised = "" /\ SegmentCount(c, mm_per_arc_segment) >= 1) =>
               /\ Abs(_vdist(first, c.vec) - c.lin_d) <= 5 * EPSILON
               /\ Abs(_vdist(first, p.vec) - Abs(_vdist(c.vec, p.vec) - c.lin_d))
                      <= 5 * EPSILON
               /\ Abs(_vdist(last, c.vec) - c.lin_d) <= 5 * EPSILON
               /\ Abs(_vdist(last, n.vec) - Abs(_vdist(c.vec, n.vec) - c.lin_d))
                      <= 5 * EPSILON

\* C29: a submission that raises UnsupportedMode or PositionDrift leaves
\* the buffer, every field of every point included, as it found it, emits
\* no move, and leaves the last move target, the retained feed and the
\* reported position as they were.
C29_RefusalChangesNothing ==
    [][(nsub' = nsub + 1 /\ raised' \in {"UnsupportedMode", "PositionDrift"}) =>
           /\ buffer' = buffer
           /\ out' = <<>>
           /\ lastg0' = lastg0
           /\ G0_F' = G0_F
           /\ gcode_position' = gcode_position]_vars

\* a submission was refused for drift on a buffer whose first point a
\* partial retirement had moved
C29_Witness ==
    /\ nsub > 0
    /\ raised = "PositionDrift"
    /\ Len(call.buffer) >= 3
    /\ call.buffer[1].id > 0
    /\ buffer = call.buffer
    /\ out = <<>>

\* C30 (as stated): in a run of SpecOwnMoves, where the mode stays absolute
\* and nothing but the moves of ROUNDED_G0 changes the reported position, no
\* submission raises PositionDrift.
C30_NoDriftOnOwnMoves ==
    raised # "PositionDrift"

\* C31: every submitted point is tessellated exactly once and the seeded
\* anchor never.  Stated call by call: the anchor (id 0) gets no move; the
\* moves of a call come in groups, one per point, in submission order, each
\* for a point no earlier call emitted a move for; the points behind
\* buffer[0] are in submission order and none of them has been emitted,
\* while buffer[0] is the anchor or a point already emitted; an accepted
\* call emits or keeps pending every point that was pending plus its own,
\* and an accepted zero-deviation call leaves none pending; a refused call
\* emits nothing and keeps what was pending.  So a run that ends with an
\* accepted zero-deviation flush has emitted one group of moves, of one move
\* or more, for each accepted point.
C31_EachPointOnce ==
    LET pending(b) == {b[i].id : i \in 2..Len(b)}
        emitted == {out[i].src : i \in DOMAIN out}
        forwarded == call.gcmd.D <= 0 /\ Len(call.buffer) < 2
    IN /\ 0 \notin emitted
       /\ \A i \in DOMAIN out : \A j \in DOMAIN out : i < j => out[i].src <= out[j].src
       /\ \A a \in emitted : a > call.emitted
       /\ \A i \in DOMAIN buffer : \A j \in DOMAIN buffer : i < j => buffer[i].id < buffer[j].id
       /\ \A a \in pending(buffer) : a > EmittedSoFar
       /\ buffer # <<>> => buffer[1].id = 0 \/ buffer[1].id <= EmittedSoFar
       /\ Len(out) >= Cardinality(emitted)
       /\ (nsub > 0 /\ raised = "" /\ ~forwarded) =>
              /\ emitted \cup pending(buffer) = pending(call.buffer) \cup {nsub}
              /\ emitted \cap pending(buffer) = {}
              /\ call.gcmd.D <= 0 => buffer = <<>>
       /\ (nsub > 0 /\ raised = "" /\ forwarded) =>
              emitted = {nsub} /\ Len(out) = 1 /\ buffer = call.buffer
       /\ raised # "" => out = <<>> /\ pending(buffer) = pending(call.buffer)

\* a zero-deviation flush was accepted on a buffer whose first point had
\* been retained, after its own moves, as the continuation point of an
\* earlier retirement; the flush emitted the pending points and its own
C31_Witness ==
    /\ nsub > 0 /\ call.gcmd.D <= 0 /\ raised = ""
    /\ Len(call.buffer) >= 3
    /\ call.buffer[1].id > 0
    /\ call.buffer[1].id <= call.emitted
    /\ buffer = <<>>
    /\ {out[i].src : i \in DOMAIN out} = {call.buffer[i].id : i \in 2..Len(call.buffer)} \cup {nsub}

\* C32 (as stated): a zero-deviation submission on the empty buffer is
\* forwarded as one move, seeds no anchor and leaves the buffer empty, and
\* its outcome is that of the flush of a one-point run, that is of the same
\* command taken through the anchor seed and _lineto: no error, one move to
\* the same position, the buffer empty.
C32_SameAsOnePointFlush ==
    [][(nsub' = nsub + 1 /\ call'.gcmd.D <= 0 /\ buffer = <<>> /\ ~call'.gcmd.malformed) =>
           LET fl == Accepted(call'.gcmd)
           IN /\ buffer' = <<>>
              /\ raised' = "" /\ Len(out') = 1
              /\ fl.err = "" /\ fl.buffer = <<>> /\ Len(fl.out) = 1
              /\ fl.out[1].vec = out'[1].vec]_vars

\* C32 (amended): a zero-deviation submission on the empty buffer is
\* forwarded unchanged as one move, raises nothing, seeds no anchor and
\* leaves the buffer empty, whatever the coordinate mode.  In absolute mode
\* the move (target, feed when the command gives none or a positive one) is
\* the one the flush of a one-point run would emit, and that flush would
\* leave the buffer empty too.  In relative mode the move is relative to the
\* reported position, while the one-point run would be refused with
\* UnsupportedMode and emit nothing.
C32_ForwardedAsOnePointFlush ==
    [][(nsub' = nsub + 1 /\ call'.gcmd.D <= 0 /\ buffer = <<>> /\ ~call'.gcmd.malformed) =>
           LET gcmd == call'.gcmd
               fl == Accepted(gcmd)
               tgt(base) == << IF gcmd.X = <<>> THEN gcode_position[1] ELSE base[1] + gcmd.X[1],
                               IF gcmd.Y = <<>> THEN gcode_position[2] ELSE base[2] + gcmd.Y[1],
                               IF gcmd.Z = <<>> THEN gcode_position[3] ELSE base[3] + gcmd.Z[1] >>
           IN /\ buffer' = <<>>
              /\ raised' = "" /\ Len(out') = 1
              /\ out'[1].src = nsub' /\ out'[1].F = gcmd.F
              /\ gcode_position' = out'[1].vec
              /\ IF absolute_coordinates
                 THEN /\ out'[1].vec = tgt(<<0, 0, 0>>)
                      /\ fl.err = "" /\ fl.buffer = <<>> /\ Len(fl.out) = 1
                      /\ fl.out[1].vec = out'[1].vec
                      /\ fl.out[1].src = out'[1].src
                      /\ (gcmd.F = <<>> \/ gcmd.F[1] > 0) => fl.out[1].F = out'[1].F
                 ELSE /\ out'[1].vec = tgt(gcode_position)
                      /\ fl.err = "UnsupportedMode" /\ fl.out = <<>>]_vars

\* in absolute mode a zero-deviation submission found the buffer empty and
\* the tool away from the submitted position, and was forwarded as one move
\* there
C32_Witness ==
    /\ nsub > 0 /\ call.gcmd.D <= 0 /\ call.buffer = <<>> /\ call.absolute
    /\ ~call.gcmd.malformed
    /\ raised = ""
    /\ buffer = <<>>
    /\ Len(out) = 1
    /\ out[1].vec # call.pos
    /\ out[1].vec = gcode_position

\* C33 (as stated): between submissions the buffer never holds exactly one
\* point, and every buffered point other than buffer[0] has a positive
\* maximum deviation, whatever submissions were accepted or refused before.
C33_NeverOnePoint ==
    /\ Len(buffer) # 1
    /\ \A i \in 2..Len(buffer) : buffer[i].maxd > 0

\* C34: the branch of the deconflictor that zeroes both blend distances is
\* never taken.  No point of the buffer, before, during or after a call, has
\* a negative blend_to_radius_ratio, and one whose ratio is 0 has a blend
\* distance of 0; and on every overlapping edge a pass processes, a deficit
\* that remains after the larger-radius step finds both ratios positive, so
\* an edge at a point of ratio 0 is settled by the larger-radius step alone.
C34_DefensiveBranchUnreachable ==
    /\ \A b \in {buffer, call.buffer, appended, retired.buf} :
           \A i \in DOMAIN b :
               /\ b[i].lin_d_to_r >= 0
               /\ b[i].lin_d_to_r = 0 => b[i].lin_d = 0
    /\ retired.n > 0 =>
           LET pre == IF call.gcmd.D <= 0 THEN ZeroCorner(appended) ELSE appended
               order == DeconflictOrder(pre, retired.n + 1)
               T == DeconflictTrace(pre, order)
           IN \A k \in 1..Len(order) :
                  LET p0 == T[k][order[k] - 1]
                      p1 == T[k][order[k]]
                      a == ReduceBiggest(p0, p1)
                  IN p0.lin_d + p1.lin_d > p1.len =>
                         /\ a[1].lin_d + a[2].lin_d > a[2].len =>
                                p0.lin_d_to_r > 0 /\ p1.lin_d_to_r > 0
                         /\ (p0.lin_d_to_r <= 0 \/ p1.lin_d_to_r <= 0) =>
                                /\ a[1].lin_d + a[2].lin_d <= a[2].len
                                /\ T[k + 1][order[k] - 1] = a[1]
                                /\ T[k + 1][order[k]] = a[2]

\* a pass met an edge shorter than the blend distance of the corner at its
\* end, whose other end had ratio 0 and blend distance 0; the larger-radius
\* step cut the corner's blend distance to fit the edge
C34_Witness ==
    /\ retired.n > 0
    /\ raised = ""
    /\ LET pre == IF call.gcmd.D <= 0 THEN ZeroCorner(appended) ELSE appended
           order == DeconflictOrder(pre, retired.n + 1)
           T == DeconflictTrace(pre, order)
       IN \E k \in 1..Len(order) :
              LET p0 == T[k][order[k] - 1]
                  p1 == T[k][order[k]]
                  q1 == T[k + 1][order[k]]
              IN /\ p0.lin_d_to_r = 0 /\ p0.lin_d = 0
                 /\ p1.lin_d > p1.len
                 /\ q1.lin_d < p1.lin_d
                 /\ q1.lin_d > 0
                 /\ q1.lin_d <= p1.len

\* C35: whenever _lineto invokes _flush_buffer, after a zero-deviation
\* append or after a positive-deviation append whose retirement test
\* passed, num_segments is 1 or more and the buffer holds three points or
\* more, so the flush takes none of its early exits: it deconflicts
\* num_segments + 1 edges of the whole buffer and retires num_segments
\* corners.  After the flush of a zero-deviation append two points are left,
\* and the move to the last of them is emitted; no call ends in an index
\* error.
C35_FlushNeverExitsEarly ==
    /\ raised # "IndexError"
    /\ (appended # <<>> /\ raised = "") =>
           LET n == Len(appended)
               zero == n >= 2 /\ appended[n].maxd <= 0
               num_segments == IF zero THEN n - 2 ELSE n - 3
           IN (zero \/ NoOverlap(appended)) =>
                  /\ num_segments >= 1
                  /\ n >= 3
                  /\ retired.n = num_segments
                  /\ Len(retired.buf) = n
                  /\ zero => /\ Len(retired.buf) - retired.n = 2
                             /\ out # <<>>
                             /\ out[Len(out)].src = appended[n].id
                             /\ buffer = <<>>

\* a zero-deviation point was appended to the smallest buffer that takes
\* one, two points, and its flush retired the one corner
C35_Witness ==
    /\ nsub > 0 /\ call.gcmd.D <= 0 /\ raised = ""
    /\ Len(call.buffer) = 2
    /\ Len(appended) = 3
    /\ retired.n = 1
    /\ buffer = <<>>
    /\ out # <<>>
====
